---- MODULE Spec2Model ----
(***************************************************************************)
(* State-machine model of the SpinNRewards Telegram bot (src/main.py).     *)
(*                                                                         *)
(* The model covers the configuration the module runs in when MONGO_URI is *)
(* unset (users_col = None): every record lives in the dictionary          *)
(* _users_cache, which save_users_file writes to users.json after every    *)
(* change and load_users_file reads back at start-up.  Each command        *)
(* handler is one atomic action: telebot hands it one message and it runs  *)
(* to completion.                                                          *)
(*                                                                         *)
(* Texts (user ids as dictionary keys, command arguments) are sequences of *)
(* one-character strings, so that str() and int() are computed and a key   *)
(* such as "01" differs from "1" although int() maps both to 1.            *)
(*                                                                         *)
(* Time is counted in ticks of 1/TicksPerSec second: time.time() is a      *)
(* float, and int() in the cool-down message truncates it.                 *)
(*                                                                         *)
(* Two further specifications share the module.  SpecBackends runs every   *)
(* command on the flat-file program and, beside it, on the program         *)
(* configured with MONGO_URI (users_col a collection), to compare the two. *)
(* SpecThreads splits /spin and /start into the steps of their handlers    *)
(* and interleaves two of them, as the two worker threads of               *)
(* telebot.TeleBot do.  The collection is taken to answer and to be true   *)
(* in "if users_col:" (pymongo before 4.0; later versions raise there).    *)
(***************************************************************************)
EXTENDS Integers, Sequences, FiniteSets, TLC

VARIABLES
    users_cache,   \* _users_cache: key text -> user record
    sent,          \* messages the last handler sent, in order: [to, msg]
    outcome,       \* the last command and the branch its handler took
    ledger,        \* history per key: spins won, their sum, bonus spins, admin sets
    budget,        \* commands of each kind the run may still handle
    input,         \* what the last handler read from outside: the clock, the draw
    users_col,     \* the collection "users": user_id -> document
    mirror,        \* sent and outcome of the last handler run on the collection
    threads        \* the handlers in progress on the worker threads

vars == <<users_cache, sent, outcome, ledger, budget, input, users_col, mirror, threads>>

----------------------------------------------------------------------------
(* Bounds of the model *)

MaxSpinCmds == 4       \* /spin commands in a run of spins
MaxStartCmds == 4      \* /start commands in a run of referrals
MaxTaskCmds == 3       \* /submit commands, and /approvetask commands, in a run of tasks
MaxMixedCmds == 1      \* /start commands in a run of referrals and two spins
MaxViewCmds == 2       \* /balance, /myrefs and board commands in a run of views
MaxAdminCmds == 2      \* /userstats and /broadcast commands in a run of admin commands
MaxBackendCmds == 2    \* /start commands in a run on both configurations
MaxThreadCmds == 2     \* handlers started in a run of interleaved handlers

(* Program constants *)

ADMIN_ID == 1
COOLDOWN == 36000
REFILL_SPINS == 2
INITIAL_SPINS == 3
DAILY_CAP == 5
WEEKLY_CAP == 40
TASK_REWARD == 500
TicksPerSec == 2
TimeBase == 200000

\* the Telegram users who send commands: the admin and one more
Users == {ADMIN_ID, ADMIN_ID + 1}

\* REWARD_POOL: (value, weight) pairs
REWARD_POOL == <<
    <<0, 20>>, <<300, 35>>, <<500, 27>>, <<800, 10>>, <<1000, 5>>, <<1500, 3>> >>

----------------------------------------------------------------------------
(* str() and int() on texts *)

Digits == <<"0", "1", "2", "3", "4", "5", "6", "7", "8", "9">>

DigitVal(c) == CHOOSE d \in 0..9 : Digits[d + 1] = c

IsDigit(c) == \E d \in 0..9 : Digits[d + 1] = c

RECURSIVE StrNat(_)
StrNat(n) == IF n < 10 THEN <<Digits[n + 1]>>
             ELSE StrNat(n \div 10) \o <<Digits[(n % 10) + 1]>>

\* str(n) for an integer n
py_str(n) == IF n < 0 THEN <<"-">> \o StrNat(-n) ELSE StrNat(n)

RECURSIVE DigitsVal(_, _)
DigitsVal(t, acc) == IF t = <<>> THEN acc
                     ELSE DigitsVal(Tail(t), 10 * acc + DigitVal(Head(t)))

AllDigits(t) == t # <<>> /\ \A i \in 1..Len(t) : IsDigit(t[i])

\* int(text) succeeds: an optional sign, then decimal digits
py_int_ok(t) ==
    IF t # <<>> /\ Head(t) \in {"-", "+"} THEN AllDigits(Tail(t)) ELSE AllDigits(t)

\* int(text) where it succeeds (it raises ValueError where py_int_ok fails)
py_int(t) ==
    IF Head(t) = "-" THEN -DigitsVal(Tail(t), 0)
    ELSE IF Head(t) = "+" THEN DigitsVal(Tail(t), 0)
    ELSE DigitsVal(t, 0)

\* int(x) of a float x given in ticks: truncation toward zero
py_trunc(x) == IF x >= 0 THEN x \div TicksPerSec ELSE -((-x) \div TicksPerSec)

----------------------------------------------------------------------------
(* Inputs *)

\* values time.time() returns: TimeBase, the end of the cool-down counted from
\* it, and one tick (half a second) and two ticks (a second) before that end
Times == {TimeBase} \cup { TimeBase + COOLDOWN * TicksPerSec - j : j \in {0, 1, 2} }

\* what a user may type after /start, /approvetask or /setcoins as a user id
IdTexts == { py_str(u) : u \in Users } \cup { <<"0", "1">>, <<"x">> }

\* what the admin may type as the amount of /setcoins
AmountTexts == { <<"7", "0", "0">>, <<"-", "5">>, <<"x">> }

\* message.text.split(" ", 1)[1:] of a /broadcast: no text, or a text
BroadcastTexts == { <<>>, <<"hello">> }

----------------------------------------------------------------------------
(* User repository, flat-file configuration *)

\* variant of DefaultUser: a new user gets the refill amount of spins
DefaultUserRefillSpins == [
    coins |-> 0,
    spins |-> REFILL_SPINS,
    last_spin_time |-> 0,
    ref_by |-> "None",
    refs |-> <<>>,
    daily_refs |-> <<>>,
    weekly_refs |-> <<>>,
    task_pending |-> <<>>,
    task_done |-> <<>> ]

\* the default record of get_user (lines 130-140)
DefaultUser == [
    coins |-> 0,
    spins |-> INITIAL_SPINS,
    last_spin_time |-> 0,
    ref_by |-> "None",
    refs |-> <<>>,
    daily_refs |-> <<>>,
    weekly_refs |-> <<>>,
    task_pending |-> <<>>,
    task_done |-> <<>> ]

\* the cache after get_user(uid); the record returned is the entry at uid
get_user(cache, uid) ==
    IF uid \in DOMAIN cache THEN cache
    ELSE [k \in DOMAIN cache \cup {uid} |-> IF k = uid THEN DefaultUser ELSE cache[k]]

\* the cache after save_user(uid, user_obj)
save_user(cache, uid, user_obj) ==
    [k \in DOMAIN cache \cup {uid} |-> IF k = uid THEN user_obj ELSE cache[k]]

\* x in list
InList(x, list) == \E i \in 1..Len(list) : list[i] = x

\* list.remove(x): the first occurrence
RECURSIVE ListRemove(_, _)
ListRemove(list, x) ==
    IF list = <<>> THEN <<>>
    ELSE IF Head(list) = x THEN Tail(list)
    ELSE <<Head(list)>> \o ListRemove(Tail(list), x)

----------------------------------------------------------------------------
(* Reward draw *)

\* the values random.choice can return: those of weight > 0
draw_reward == { REWARD_POOL[i][1] : i \in { j \in 1..Len(REWARD_POOL) : REWARD_POOL[j][2] > 0 } }

----------------------------------------------------------------------------
(* /spin *)

Msg(to, msg) == [to |-> to, msg |-> msg]

\* what is recorded of a handled command: its name, sender and arguments, the
\* outcome (kind, with a value where there is one) and the branch taken
Out(cmd, from, arg, kind, val, path) ==
    [cmd |-> cmd, from |-> from, arg |-> arg, kind |-> kind, val |-> val, path |-> path]

\* variant of cooldown_elapsed: the cool-down must be strictly exceeded
cooldown_elapsed_strict(now, last) == now - last > COOLDOWN * TicksPerSec

\* the refill test of line 203
cooldown_elapsed(now, last) == now - last >= COOLDOWN * TicksPerSec

\* variant of remaining_seconds: rounds up to the next whole second
remaining_seconds_rounded_up(now, last) ==
    py_trunc(COOLDOWN * TicksPerSec - (now - last) + (TicksPerSec - 1))

\* remain of line 206, in whole seconds
remaining_seconds(now, last) == py_trunc(COOLDOWN * TicksPerSec - (now - last))

\* variant of spin_won: the spin is not taken off the count
spin_won_keeps_spins(user, now, reward) ==
    [user EXCEPT !.spins = IF user.spins <= 0 THEN REFILL_SPINS ELSE user.spins,
                 !.last_spin_time = now,
                 !.coins = user.coins + reward]

\* the record after a winning spin (lines 204, 212-216)
spin_won(user, now, reward) ==
    LET spins0 == IF user.spins <= 0 THEN REFILL_SPINS ELSE user.spins
    IN  [user EXCEPT !.spins = spins0 - 1,
                     !.last_spin_time = now,
                     !.coins = user.coins + reward]

\* cmd_spin for sender id, time.time() = now, draw_reward() = reward
cmd_spin(cache, id, now, reward) ==
    LET uid == py_str(id)
        c1 == get_user(cache, uid)
        user == c1[uid]
    IN  IF user.spins <= 0 /\ ~cooldown_elapsed(now, user.last_spin_time)
        THEN [cache |-> c1,
              sent |-> <<Msg(id, "cooldown")>>,
              out |-> Out("spin", id, <<>>, "Cooldown",
                          remaining_seconds(now, user.last_spin_time), "wait")]
        ELSE [cache |-> save_user(c1, uid, spin_won(user, now, reward)),
              sent |-> <<Msg(id, "won")>>,
              out |-> Out("spin", id, <<>>, "Won", reward,
                          IF user.spins <= 0 THEN "refill" ELSE "direct")]

----------------------------------------------------------------------------
(* /start [ref] *)

\* variant of under_caps: a referrer at the cap is still under it
under_caps_inclusive(ref_user) ==
    Len(ref_user.daily_refs) <= DAILY_CAP /\ Len(ref_user.weekly_refs) <= WEEKLY_CAP

\* the cap test of line 179
under_caps(ref_user) ==
    Len(ref_user.daily_refs) < DAILY_CAP /\ Len(ref_user.weekly_refs) < WEEKLY_CAP

\* variant of credit_referral: the referral also pays the task reward in coins
credit_referral_with_coins(ref_user, uid) ==
    [ref_user EXCEPT !.refs = Append(ref_user.refs, uid),
                     !.daily_refs = Append(ref_user.daily_refs, uid),
                     !.weekly_refs = Append(ref_user.weekly_refs, uid),
                     !.spins = ref_user.spins + 1,
                     !.coins = ref_user.coins + TASK_REWARD]

\* variant of credit_referral: daily_refs is left as it was
credit_referral_skips_daily(ref_user, uid) ==
    [ref_user EXCEPT !.refs = Append(ref_user.refs, uid),
                     !.weekly_refs = Append(ref_user.weekly_refs, uid),
                     !.spins = ref_user.spins + 1]

\* variant of credit_referral: the referral is worth two spins
credit_referral_two_spins(ref_user, uid) ==
    [ref_user EXCEPT !.refs = Append(ref_user.refs, uid),
                     !.daily_refs = Append(ref_user.daily_refs, uid),
                     !.weekly_refs = Append(ref_user.weekly_refs, uid),
                     !.spins = ref_user.spins + 2]

\* the referrer's record after an accepted referral (lines 180-183)
credit_referral(ref_user, uid) ==
    [ref_user EXCEPT !.refs = Append(ref_user.refs, uid),
                     !.daily_refs = Append(ref_user.daily_refs, uid),
                     !.weekly_refs = Append(ref_user.weekly_refs, uid),
                     !.spins = ref_user.spins + 1]

\* the referral block of cmd_start (lines 174-190), from the cache c1 that
\* holds the sender's record
apply_referral(c1, id, ref) ==
    LET uid == py_str(id)
        c2 == get_user(c1, ref)
        ref_user == c2[ref]
    IN  IF ref = uid THEN [cache |-> c1, sent |-> <<>>, kind |-> "SelfReferral"]
        ELSE IF InList(uid, ref_user.refs)
             THEN [cache |-> c2, sent |-> <<>>, kind |-> "AlreadyReferred"]
        ELSE IF ~under_caps(ref_user)
             THEN [cache |-> c2, sent |-> <<>>, kind |-> "CapExceeded"]
        ELSE [cache |-> save_user(c2, ref, credit_referral(ref_user, uid)),
              \* int(ref) raises ValueError for a text that is no number; the
              \* handler swallows it and sends nothing
              sent |-> IF py_int_ok(ref) THEN <<Msg(py_int(ref), "ref_bonus")>> ELSE <<>>,
              kind |-> "Accepted"]

\* cmd_start for sender id; args = message.text.split()[1:]
cmd_start(cache, id, args) ==
    LET uid == py_str(id)
        c1 == get_user(cache, uid)
    IN  IF Len(args) > 0
        THEN LET r == apply_referral(c1, id, args[1])
             IN  [cache |-> save_user(r.cache, uid, r.cache[uid]),
                  sent |-> r.sent \o <<Msg(id, "welcome")>>,
                  out |-> Out("start", id, args, r.kind, 0, "ref")]
        ELSE [cache |-> save_user(c1, uid, c1[uid]),
              sent |-> <<Msg(id, "welcome")>>,
              out |-> Out("start", id, args, "NoReferral", 0, "plain")]

----------------------------------------------------------------------------
(* /submit and /approvetask [user_id] *)

\* variant of task_is_pending: looks the id up in task_done
task_is_pending_in_done(user, uid) == InList(uid, user.task_done)

\* the test of lines 272 and 291
task_is_pending(user, uid) == InList(uid, user.task_pending)

cmd_submit(cache, id) ==
    LET uid == py_str(id)
        c1 == get_user(cache, uid)
        user == c1[uid]
    IN  IF ~task_is_pending(user, uid)
        THEN [cache |-> save_user(c1, uid,
                           [user EXCEPT !.task_pending = Append(user.task_pending, uid)]),
              sent |-> <<Msg(id, "submitted"), Msg(ADMIN_ID, "task_notice")>>,
              out |-> Out("submit", id, <<>>, "Submitted", 0, "new")]
        ELSE [cache |-> c1, sent |-> <<>>,
              out |-> Out("submit", id, <<>>, "AlreadyPending", 0, "skip")]

\* variant of approve: the id stays in task_pending
approve_keeps_pending(user, uid) ==
    [user EXCEPT !.coins = user.coins + TASK_REWARD,
                 !.task_done = Append(user.task_done, uid)]

\* variant of approve: the reward is paid twice
approve_pays_double(user, uid) ==
    [user EXCEPT !.coins = user.coins + 2 * TASK_REWARD,
                 !.task_pending = ListRemove(user.task_pending, uid),
                 !.task_done = Append(user.task_done, uid)]

\* the record after an approval (lines 292-295)
approve(user, uid) ==
    [user EXCEPT !.coins = user.coins + TASK_REWARD,
                 !.task_pending = ListRemove(user.task_pending, uid),
                 !.task_done = Append(user.task_done, uid)]

cmd_approvetask(cache, id, args) ==
    IF id # ADMIN_ID
    THEN [cache |-> cache, sent |-> <<>>,
          out |-> Out("approvetask", id, args, "NotAdmin", 0, "gate")]
    ELSE IF Len(args) < 1
    THEN [cache |-> cache, sent |-> <<Msg(id, "usage")>>,
          out |-> Out("approvetask", id, args, "Usage", 0, "usage")]
    ELSE LET uid == args[1]
             c1 == get_user(cache, uid)
             user == c1[uid]
         IN  IF task_is_pending(user, uid)
             THEN [cache |-> save_user(c1, uid, approve(user, uid)),
                   sent |-> <<Msg(py_int(uid), "task_approved"), Msg(id, "approved")>>,
                   out |-> Out("approvetask", id, args, "Approved", TASK_REWARD, "approve")]
             ELSE [cache |-> c1, sent |-> <<Msg(id, "no_pending")>>,
                   out |-> Out("approvetask", id, args, "NoPendingTask", 0, "none")]

----------------------------------------------------------------------------
(* /setcoins <user_id> <amount> *)

\* variant of set_coins: the amount is added to the balance
set_coins_additive(user, amount_i) == [user EXCEPT !.coins = user.coins + amount_i]

\* the record after line 328
set_coins(user, amount_i) == [user EXCEPT !.coins = amount_i]

cmd_setcoins(cache, id, args) ==
    IF id # ADMIN_ID
    THEN [cache |-> cache, sent |-> <<>>,
          out |-> Out("setcoins", id, args, "NotAdmin", 0, "gate")]
    ELSE IF Len(args) # 2
    THEN [cache |-> cache, sent |-> <<Msg(id, "usage")>>,
          out |-> Out("setcoins", id, args, "Usage", 0, "usage")]
    ELSE IF ~py_int_ok(args[2])
    THEN [cache |-> cache, sent |-> <<Msg(id, "not_a_number")>>,
          out |-> Out("setcoins", id, args, "NotANumber", 0, "value_error")]
    ELSE LET uid == args[1]
             amount_i == py_int(args[2])
             c1 == get_user(cache, uid)
         IN  [cache |-> save_user(c1, uid, set_coins(c1[uid], amount_i)),
              sent |-> <<Msg(id, "coins_set")>>,
              out |-> Out("setcoins", id, args, "Set", amount_i, "set")]

----------------------------------------------------------------------------
(* /balance, /myrefs, /referralboard, /leaderboard *)

cmd_balance(cache, id) ==
    LET uid == py_str(id)
        c1 == get_user(cache, uid)
    IN  [cache |-> c1, sent |-> <<Msg(id, "balance")>>,
         out |-> Out("balance", id, <<>>, "Balance", c1[uid].coins, "view")]

cmd_myrefs(cache, id) ==
    LET uid == py_str(id)
        c1 == get_user(cache, uid)
    IN  [cache |-> c1, sent |-> <<Msg(id, "myrefs")>>,
         out |-> Out("myrefs", id, <<>>, "MyRefs", Len(c1[uid].refs), "view")]

\* entries a board lists: the first ten of the sorted records
board_size(cache) ==
    IF Cardinality(DOMAIN cache) < 10 THEN Cardinality(DOMAIN cache) ELSE 10

cmd_referralboard(cache, id) ==
    [cache |-> cache, sent |-> <<Msg(id, "referralboard")>>,
     out |-> Out("referralboard", id, <<>>, "Board", board_size(cache), "view")]

cmd_leaderboard(cache, id) ==
    [cache |-> cache, sent |-> <<Msg(id, "leaderboard")>>,
     out |-> Out("leaderboard", id, <<>>, "Board", board_size(cache), "view")]

----------------------------------------------------------------------------
(* /userstats and /broadcast <message> *)

\* variant of cmd_userstats: the sender is not checked
cmd_userstats_ungated(cache, id) ==
    [cache |-> cache, sent |-> <<Msg(id, "userstats")>>,
     out |-> Out("userstats", id, <<>>, "Stats", Cardinality(DOMAIN cache), "stats")]

cmd_userstats(cache, id) ==
    IF id # ADMIN_ID
    THEN [cache |-> cache, sent |-> <<>>,
          out |-> Out("userstats", id, <<>>, "NotAdmin", 0, "gate")]
    ELSE [cache |-> cache, sent |-> <<Msg(id, "userstats")>>,
          out |-> Out("userstats", id, <<>>, "Stats", Cardinality(DOMAIN cache), "stats")]

\* list(_users_cache.keys()): the keys in the order the dictionary holds them.
\* The cache is modelled without that order, so every order is a possible one.
KeyOrders(cache) ==
    { o \in [1..Cardinality(DOMAIN cache) -> DOMAIN cache] :
        \A i, j \in DOMAIN o : i # j => o[i] # o[j] }

\* the sends of the loop of lines 348-352 over the keys in order: int(uid)
\* raises ValueError for a key that is no number, and the loop passes on
RECURSIVE broadcast_sends(_)
broadcast_sends(order) ==
    IF order = <<>> THEN <<>>
    ELSE (IF py_int_ok(Head(order)) THEN <<Msg(py_int(Head(order)), "broadcast")>> ELSE <<>>)
         \o broadcast_sends(Tail(order))

\* cmd_broadcast for sender id; text = message.text.split(" ", 1)[1:]
cmd_broadcast(cache, id, text, order) ==
    IF id # ADMIN_ID
    THEN [cache |-> cache, sent |-> <<>>,
          out |-> Out("broadcast", id, text, "NotAdmin", 0, "gate")]
    ELSE IF Len(text) < 1
    THEN [cache |-> cache, sent |-> <<Msg(id, "usage")>>,
          out |-> Out("broadcast", id, text, "Usage", 0, "usage")]
    ELSE [cache |-> cache,
          sent |-> broadcast_sends(order) \o <<Msg(id, "broadcast_done")>>,
          out |-> Out("broadcast", id, text, "Broadcast", Len(order), "send")]

----------------------------------------------------------------------------
(* User repository, MONGO_URI configuration *)

\* users_col = None (line 34)
NoCollection == [connected |-> FALSE, docs |-> <<>>]

\* the collection after a successful connection, empty
EmptyCollection == [connected |-> TRUE, docs |-> <<>>]

\* update_one({"user_id": key}, {"$set": payload}, upsert=True); a document
\* is modelled by its nine fields, its user_id being the key
upsert_user_db(col, key, payload) ==
    [col EXCEPT !.docs = [k \in DOMAIN col.docs \cup {key} |->
                            IF k = key THEN payload ELSE col.docs[k]]]

\* get_user(uid) where int(uid) succeeds: the collection afterwards and the
\* document returned, a copy of the stored one
get_user_db(col, uid) ==
    LET key == py_int(uid)
    IN  IF key \in DOMAIN col.docs
        THEN [col |-> col, user |-> col.docs[key]]
        ELSE [col |-> upsert_user_db(col, key, DefaultUser), user |-> DefaultUser]

\* save_user(uid, user_obj) where int(uid) succeeds
save_user_db(col, uid, user_obj) == upsert_user_db(col, py_int(uid), user_obj)

\* a handler left by an exception: nothing saved since, nothing sent
Raised(col, cmd, id, args) ==
    [col |-> col, sent |-> <<>>, out |-> Out(cmd, id, args, "Raised", 0, "exception")]

cmd_spin_db(col, id, now, reward) ==
    LET uid == py_str(id)
        g == get_user_db(col, uid)
        user == g.user
    IN  IF user.spins <= 0 /\ ~cooldown_elapsed(now, user.last_spin_time)
        THEN [col |-> g.col,
              sent |-> <<Msg(id, "cooldown")>>,
              out |-> Out("spin", id, <<>>, "Cooldown",
                          remaining_seconds(now, user.last_spin_time), "wait")]
        ELSE [col |-> save_user_db(g.col, uid, spin_won(user, now, reward)),
              sent |-> <<Msg(id, "won")>>,
              out |-> Out("spin", id, <<>>, "Won", reward,
                          IF user.spins <= 0 THEN "refill" ELSE "direct")]

\* the referral block of cmd_start (lines 174-190) on the collection c1
apply_referral_db(c1, id, ref) ==
    LET uid == py_str(id)
    IN  IF ref = uid THEN [col |-> c1, sent |-> <<>>, kind |-> "SelfReferral"]
        \* int(ref) of line 88 raises ValueError, caught at line 189
        ELSE IF ~py_int_ok(ref) THEN [col |-> c1, sent |-> <<>>, kind |-> "RefError"]
        ELSE LET g == get_user_db(c1, ref)
                 ref_user == g.user
             IN  IF InList(uid, ref_user.refs)
                 THEN [col |-> g.col, sent |-> <<>>, kind |-> "AlreadyReferred"]
                 ELSE IF ~under_caps(ref_user)
                 THEN [col |-> g.col, sent |-> <<>>, kind |-> "CapExceeded"]
                 ELSE [col |-> save_user_db(g.col, ref, credit_referral(ref_user, uid)),
                       sent |-> <<Msg(py_int(ref), "ref_bonus")>>,
                       kind |-> "Accepted"]

\* cmd_start on the collection: line 192 saves the copy read at line 171
cmd_start_db(col, id, args) ==
    LET uid == py_str(id)
        g == get_user_db(col, uid)
        user == g.user
    IN  IF Len(args) > 0
        THEN LET r == apply_referral_db(g.col, id, args[1])
             IN  [col |-> save_user_db(r.col, uid, user),
                  sent |-> r.sent \o <<Msg(id, "welcome")>>,
                  out |-> Out("start", id, args, r.kind, 0, "ref")]
        ELSE [col |-> save_user_db(g.col, uid, user),
              sent |-> <<Msg(id, "welcome")>>,
              out |-> Out("start", id, args, "NoReferral", 0, "plain")]

cmd_submit_db(col, id) ==
    LET uid == py_str(id)
        g == get_user_db(col, uid)
        user == g.user
    IN  IF ~task_is_pending(user, uid)
        THEN [col |-> save_user_db(g.col, uid,
                         [user EXCEPT !.task_pending = Append(user.task_pending, uid)]),
              sent |-> <<Msg(id, "submitted"), Msg(ADMIN_ID, "task_notice")>>,
              out |-> Out("submit", id, <<>>, "Submitted", 0, "new")]
        ELSE [col |-> g.col, sent |-> <<>>,
              out |-> Out("submit", id, <<>>, "AlreadyPending", 0, "skip")]

cmd_approvetask_db(col, id, args) ==
    IF id # ADMIN_ID
    THEN [col |-> col, sent |-> <<>>,
          out |-> Out("approvetask", id, args, "NotAdmin", 0, "gate")]
    ELSE IF Len(args) < 1
    THEN [col |-> col, sent |-> <<Msg(id, "usage")>>,
          out |-> Out("approvetask", id, args, "Usage", 0, "usage")]
    \* int(uid) of line 88 raises ValueError out of the handler
    ELSE IF ~py_int_ok(args[1]) THEN Raised(col, "approvetask", id, args)
    ELSE LET uid == args[1]
             g == get_user_db(col, uid)
             user == g.user
         IN  IF task_is_pending(user, uid)
             THEN [col |-> save_user_db(g.col, uid, approve(user, uid)),
                   sent |-> <<Msg(py_int(uid), "task_approved"), Msg(id, "approved")>>,
                   out |-> Out("approvetask", id, args, "Approved", TASK_REWARD, "approve")]
             ELSE [col |-> g.col, sent |-> <<Msg(id, "no_pending")>>,
                   out |-> Out("approvetask", id, args, "NoPendingTask", 0, "none")]

cmd_setcoins_db(col, id, args) ==
    IF id # ADMIN_ID
    THEN [col |-> col, sent |-> <<>>,
          out |-> Out("setcoins", id, args, "NotAdmin", 0, "gate")]
    ELSE IF Len(args) # 2
    THEN [col |-> col, sent |-> <<Msg(id, "usage")>>,
          out |-> Out("setcoins", id, args, "Usage", 0, "usage")]
    ELSE IF ~py_int_ok(args[2])
    THEN [col |-> col, sent |-> <<Msg(id, "not_a_number")>>,
          out |-> Out("setcoins", id, args, "NotANumber", 0, "value_error")]
    \* int(uid) of line 88 raises ValueError out of the handler
    ELSE IF ~py_int_ok(args[1]) THEN Raised(col, "setcoins", id, args)
    ELSE LET uid == args[1]
             amount_i == py_int(args[2])
             g == get_user_db(col, uid)
         IN  [col |-> save_user_db(g.col, uid, set_coins(g.user, amount_i)),
              sent |-> <<Msg(id, "coins_set")>>,
              out |-> Out("setcoins", id, args, "Set", amount_i, "set")]

\* nothing has run on the collection
NoMirror == [sent |-> <<>>, out |-> Out("boot", 0, <<>>, "Loaded", 0, "boot")]

\* no handler is in progress
NoThreads == <<>>

----------------------------------------------------------------------------
(* History kept beside the program state *)

NoHistory == [nwon |-> 0, won |-> 0, bonus |-> 0, adminset |-> FALSE]

\* the ledger after a command with result r that acts on key: one entry per
\* stored key; an entry stops counting once the admin has set that key's coins
LedgerAfter(led, r, key) ==
    [k \in DOMAIN r.cache |->
        LET e == IF k \in DOMAIN led THEN led[k] ELSE NoHistory
        IN  IF k # key \/ e.adminset THEN e
            ELSE IF r.out.kind = "Won"
                 THEN [e EXCEPT !.nwon = e.nwon + 1, !.won = e.won + r.out.val]
            ELSE IF r.out.kind = "Accepted" THEN [e EXCEPT !.bonus = e.bonus + 1]
            ELSE IF r.out.kind = "Set"
                 THEN [nwon |-> 0, won |-> 0, bonus |-> 0, adminset |-> TRUE]
            ELSE e]

\* what a handler that reads neither the clock nor the reward pool has read
NoInput == [now |-> 0, draw |-> -1]

\* the effect on the flat-file program of a handler that read in and
\* returned r: one command of kind cmd is used up
ApplyFile(cmd, r, key, in) ==
    /\ budget[cmd] > 0
    /\ input' = in
    /\ users_cache' = r.cache
    /\ sent' = r.sent
    /\ outcome' = r.out
    /\ ledger' = LedgerAfter(ledger, r, key)
    /\ budget' = [budget EXCEPT ![cmd] = budget[cmd] - 1]

\* the step of a handler of the program without MONGO_URI
Apply(cmd, r, key, in) ==
    /\ ApplyFile(cmd, r, key, in)
    /\ UNCHANGED <<users_col, mirror, threads>>

----------------------------------------------------------------------------
(* Initial states: what load_users_file returns at start-up *)

\* users.json absent: a fresh installation
FreshFile == [k \in {} |-> DefaultUser]

\* ids of users who joined in an earlier run and send nothing in this one
PastReferees == <<11, 12, 13, 14, 15>>

\* users.json as the bot left it after user 1 sent /start and each of the
\* first n past referees sent "/start 1": n accepted referrals
ReferredFile(n) ==
    LET refs == [i \in 1..n |-> py_str(PastReferees[i])]
    IN  [k \in { refs[i] : i \in 1..n } \cup {py_str(1)} |->
            IF k = py_str(1)
            THEN [DefaultUser EXCEPT !.refs = refs, !.daily_refs = refs,
                                     !.weekly_refs = refs,
                                     !.spins = INITIAL_SPINS + n]
            ELSE DefaultUser]

\* view counts /balance, /myrefs and the boards; admin counts /userstats
\* and /broadcast
Run(nstart, nspin, nsubmit, napprove, nset) ==
    [start |-> nstart, spin |-> nspin, submit |-> nsubmit,
     approvetask |-> napprove, setcoins |-> nset, view |-> 0, admin |-> 0]

RunMore(run, nview, nadmin) == [run EXCEPT !.view = nview, !.admin = nadmin]

\* the runs explored: a stored file and the commands handled after start-up
Scenarios == {
    <<FreshFile, Run(0, MaxSpinCmds, 0, 0, 0)>>,
    <<FreshFile, Run(MaxStartCmds, 0, 0, 0, 0)>>,
    <<ReferredFile(DAILY_CAP - 1), Run(MaxStartCmds, 0, 0, 0, 0)>>,
    <<ReferredFile(DAILY_CAP), Run(MaxStartCmds, 0, 0, 0, 0)>>,
    <<FreshFile, Run(0, 0, MaxTaskCmds, MaxTaskCmds, 0)>>,
    <<FreshFile, Run(MaxMixedCmds, 2, 0, 0, 0)>>,
    <<FreshFile, Run(0, 1, 1, 1, 1)>>,
    <<FreshFile, Run(1, 0, 1, 1, 1)>>,
    <<FreshFile, RunMore(Run(1, 1, 0, 0, 0), MaxViewCmds, 0)>>,
    <<FreshFile, RunMore(Run(1, 0, 0, 0, 1), 0, MaxAdminCmds)>> }

Init ==
    /\ \E s \in Scenarios : users_cache = s[1] /\ budget = s[2]
    /\ sent = <<>>
    /\ outcome = Out("boot", 0, <<>>, "Loaded", 0, "boot")
    /\ input = NoInput
    /\ users_col = NoCollection
    /\ mirror = NoMirror
    /\ threads = NoThreads
    /\ ledger = [k \in DOMAIN users_cache |->
                    [NoHistory EXCEPT !.bonus = Len(users_cache[k].refs)]]

----------------------------------------------------------------------------
(* Actions: one per command handler *)

StartArgs == {<<>>} \cup { <<t>> : t \in IdTexts }

ApproveArgs == {<<>>} \cup { <<t>> : t \in IdTexts }

SetcoinsArgs == {<<py_str(1)>>} \cup { <<t, a>> : t \in IdTexts, a \in AmountTexts }

StartStep(id, args) ==
    Apply("start", cmd_start(users_cache, id, args),
          IF Len(args) > 0 THEN args[1] ELSE py_str(id), NoInput)

\* draw_reward is called on the winning path only
SpinStep(id, now, reward) ==
    LET r == cmd_spin(users_cache, id, now, reward)
    IN  Apply("spin", r, py_str(id),
              [now |-> now, draw |-> IF r.out.kind = "Won" THEN reward ELSE -1])

SubmitStep(id) == Apply("submit", cmd_submit(users_cache, id), py_str(id), NoInput)

ApproveStep(id, args) ==
    Apply("approvetask", cmd_approvetask(users_cache, id, args),
          IF Len(args) > 0 THEN args[1] ELSE py_str(id), NoInput)

SetCoinsStep(id, args) ==
    Apply("setcoins", cmd_setcoins(users_cache, id, args),
          IF Len(args) > 0 THEN args[1] ELSE py_str(id), NoInput)

BalanceStep(id) == Apply("view", cmd_balance(users_cache, id), py_str(id), NoInput)

MyRefsStep(id) == Apply("view", cmd_myrefs(users_cache, id), py_str(id), NoInput)

ReferralBoardStep(id) ==
    Apply("view", cmd_referralboard(users_cache, id), py_str(id), NoInput)

LeaderboardStep(id) ==
    Apply("view", cmd_leaderboard(users_cache, id), py_str(id), NoInput)

UserStatsStep(id) == Apply("admin", cmd_userstats(users_cache, id), py_str(id), NoInput)

BroadcastStep(id, text, order) ==
    Apply("admin", cmd_broadcast(users_cache, id, text, order), py_str(id), NoInput)

Start == \E id \in Users, args \in StartArgs : StartStep(id, args)

Spin == \E id \in Users, now \in Times, reward \in draw_reward : SpinStep(id, now, reward)

Submit == \E id \in Users : SubmitStep(id)

ApproveTask == \E id \in Users, args \in ApproveArgs : ApproveStep(id, args)

SetCoins == \E id \in Users, args \in SetcoinsArgs : SetCoinsStep(id, args)

Balance == \E id \in Users : BalanceStep(id)

MyRefs == \E id \in Users : MyRefsStep(id)

ReferralBoard == \E id \in Users : ReferralBoardStep(id)

Leaderboard == \E id \in Users : LeaderboardStep(id)

UserStats == \E id \in Users : UserStatsStep(id)

\* the keys are put in order only where a broadcast can still be handled
Broadcast ==
    /\ budget["admin"] > 0
    /\ \E id \in Users, text \in BroadcastTexts, order \in KeyOrders(users_cache) :
            BroadcastStep(id, text, order)

----------------------------------------------------------------------------
(* The two configurations side by side: each command is handled by the     *)
(* program without MONGO_URI and by the program with it                    *)

\* the step of a command whose handler returned r on the cache and rdb on
\* the collection
Both(cmd, r, rdb, key, in) ==
    /\ ApplyFile(cmd, r, key, in)
    /\ users_col' = rdb.col
    /\ mirror' = [sent |-> rdb.sent, out |-> rdb.out]
    /\ UNCHANGED threads

BothStart ==
    \E id \in Users, args \in StartArgs :
        Both("start", cmd_start(users_cache, id, args), cmd_start_db(users_col, id, args),
             IF Len(args) > 0 THEN args[1] ELSE py_str(id), NoInput)

BothSpin ==
    \E id \in Users, now \in Times, reward \in draw_reward :
        LET r == cmd_spin(users_cache, id, now, reward)
        IN  Both("spin", r, cmd_spin_db(users_col, id, now, reward), py_str(id),
                 [now |-> now, draw |-> IF r.out.kind = "Won" THEN reward ELSE -1])

BothSubmit ==
    \E id \in Users :
        Both("submit", cmd_submit(users_cache, id), cmd_submit_db(users_col, id),
             py_str(id), NoInput)

BothApproveTask ==
    \E id \in Users, args \in ApproveArgs :
        Both("approvetask", cmd_approvetask(users_cache, id, args),
             cmd_approvetask_db(users_col, id, args),
             IF Len(args) > 0 THEN args[1] ELSE py_str(id), NoInput)

BothSetCoins ==
    \E id \in Users, args \in SetcoinsArgs :
        Both("setcoins", cmd_setcoins(users_cache, id, args),
             cmd_setcoins_db(users_col, id, args),
             IF Len(args) > 0 THEN args[1] ELSE py_str(id), NoInput)

\* both stores empty; the commands handled after start-up
InitBackends ==
    /\ users_cache = FreshFile
    /\ users_col = EmptyCollection
    /\ budget \in { Run(MaxBackendCmds, 1, 0, 0, 0), Run(1, 0, 1, 1, 1) }
    /\ sent = <<>>
    /\ outcome = Out("boot", 0, <<>>, "Loaded", 0, "boot")
    /\ input = NoInput
    /\ mirror = NoMirror
    /\ threads = NoThreads
    /\ ledger = <<>>

NextBackends == BothStart \/ BothSpin \/ BothSubmit \/ BothApproveTask \/ BothSetCoins

SpecBackends == InitBackends /\ [][NextBackends]_vars

----------------------------------------------------------------------------
(* Handlers interleaved: telebot.TeleBot runs each handler on one of its    *)
(* worker threads, so a second handler can start before the first returns. *)
(* A handler is split at its calls of get_user and save_user.               *)

\* worker threads of telebot.TeleBot(BOT_TOKEN), whose pool has two
NumThreads == 2

Workers == 1..NumThreads

\* values time.time() returns in the interleaved runs
ThreadTimes == { TimeBase, TimeBase + COOLDOWN * TicksPerSec }

\* the locals of a worker with no handler in progress; read is the record as
\* get_user returned it
Idle == [pc |-> "idle", id |-> 0, args |-> <<>>, kind |-> "None",
         now |-> 0, reward |-> 0,
         user |-> DefaultUser, ref_user |-> DefaultUser, read |-> DefaultUser]

\* users_col is a collection: the program was started with MONGO_URI
OnCollection == users_col.connected

\* the record behind the local user of a handler for key uid: a document
\* copied out of the collection, or the dictionary stored in the cache
LocalUser(t, uid) == IF OnCollection THEN t.user ELSE users_cache[uid]

LocalRefUser(t, ref) == IF OnCollection THEN t.ref_user ELSE users_cache[ref]

\* get_user(uid) by worker w, whose locals become t with the record in field
SetLocals(w, t) == threads' = [threads EXCEPT ![w] = t]

\* a Won report is counted for key
LedgerWon(led, key, reward) ==
    [led EXCEPT ![key] = [@ EXCEPT !.nwon = @ + 1, !.won = @ + reward]]

\* variant of spin_save_db: the reward is added to the stored document
spin_save_db_increment(col, uid, user, reward) ==
    LET doc == col.docs[py_int(uid)]
    IN  save_user_db(col, uid, [doc EXCEPT !.spins = user.spins,
                                           !.last_spin_time = user.last_spin_time,
                                           !.coins = doc.coins + reward])

\* save_user(uid, user) of line 217 on the collection
spin_save_db(col, uid, user, reward) == save_user_db(col, uid, user)

\* line 198: user = get_user(uid)
SpinGet(w, id) ==
    LET uid == py_str(id)
        g == get_user_db(users_col, uid)
    IN  /\ threads[w].pc = "idle"
        /\ budget["spin"] > 0
        /\ budget' = [budget EXCEPT !["spin"] = budget["spin"] - 1]
        /\ IF OnCollection
           THEN /\ users_col' = g.col
                /\ SetLocals(w, [Idle EXCEPT !.pc = "spin_got", !.id = id,
                                             !.user = g.user, !.read = g.user])
                /\ UNCHANGED users_cache
           ELSE /\ users_cache' = get_user(users_cache, uid)
                /\ SetLocals(w, [Idle EXCEPT !.pc = "spin_got", !.id = id,
                                             !.read = users_cache'[uid]])
                /\ UNCHANGED users_col
        /\ sent' = <<>>
        /\ UNCHANGED <<outcome, ledger, input, mirror>>

\* lines 199-216: the refill test, then either the cool-down reply and the
\* return, or the changes to user
SpinMutate(w, now, reward) ==
    LET t == threads[w]
        uid == py_str(t.id)
        user == LocalUser(t, uid)
    IN  /\ t.pc = "spin_got"
        /\ IF user.spins <= 0 /\ ~cooldown_elapsed(now, user.last_spin_time)
           THEN /\ SetLocals(w, Idle)
                /\ sent' = <<Msg(t.id, "cooldown")>>
                /\ outcome' = Out("spin", t.id, <<>>, "Cooldown",
                                   remaining_seconds(now, user.last_spin_time), "wait")
                /\ UNCHANGED <<users_cache, users_col>>
           ELSE /\ IF OnCollection
                   THEN /\ SetLocals(w, [t EXCEPT !.pc = "spin_mutated", !.now = now,
                                                  !.reward = reward,
                                                  !.user = spin_won(user, now, reward)])
                        /\ UNCHANGED users_cache
                   ELSE /\ SetLocals(w, [t EXCEPT !.pc = "spin_mutated", !.now = now,
                                                  !.reward = reward])
                        /\ users_cache' = [users_cache EXCEPT
                                              ![uid] = spin_won(user, now, reward)]
                /\ sent' = <<>>
                /\ UNCHANGED <<outcome, users_col>>
        /\ UNCHANGED <<ledger, budget, input, mirror>>

\* lines 217-219: save_user(uid, user) and the reply
SpinSave(w) ==
    LET t == threads[w]
        uid == py_str(t.id)
    IN  /\ t.pc = "spin_mutated"
        /\ IF OnCollection
           THEN /\ users_col' = spin_save_db(users_col, uid, t.user, t.reward)
                /\ UNCHANGED users_cache
           ELSE /\ users_cache' = save_user(users_cache, uid, users_cache[uid])
                /\ UNCHANGED users_col
        /\ SetLocals(w, Idle)
        /\ sent' = <<Msg(t.id, "won")>>
        /\ outcome' = Out("spin", t.id, <<>>, "Won", t.reward,
                           IF t.read.spins <= 0 THEN "refill" ELSE "direct")
        /\ ledger' = LedgerWon(ledger, uid, t.reward)
        /\ UNCHANGED <<budget, input, mirror>>

\* lines 170-176: user = get_user(uid), the split, and the test ref != uid
StartGet(w, id, args) ==
    LET uid == py_str(id)
        g == get_user_db(users_col, uid)
        pc == IF Len(args) = 0 \/ args = <<uid>> THEN "start_final" ELSE "start_ref"
        kind == IF Len(args) = 0 THEN "NoReferral"
                ELSE IF args = <<uid>> THEN "SelfReferral" ELSE "None"
    IN  /\ threads[w].pc = "idle"
        /\ budget["start"] > 0
        /\ budget' = [budget EXCEPT !["start"] = budget["start"] - 1]
        /\ IF OnCollection
           THEN /\ users_col' = g.col
                /\ SetLocals(w, [Idle EXCEPT !.pc = pc, !.id = id, !.args = args,
                                             !.kind = kind, !.user = g.user,
                                             !.read = g.user])
                /\ UNCHANGED users_cache
           ELSE /\ users_cache' = get_user(users_cache, uid)
                /\ SetLocals(w, [Idle EXCEPT !.pc = pc, !.id = id, !.args = args,
                                             !.kind = kind, !.read = users_cache'[uid]])
                /\ UNCHANGED users_col
        /\ sent' = <<>>
        /\ UNCHANGED <<outcome, ledger, input, mirror>>

\* line 177: ref_user = get_user(ref); on the collection int(ref) raises
\* ValueError for a text that is no number, caught at line 189
StartGetRef(w) ==
    LET t == threads[w]
        ref == t.args[1]
        g == get_user_db(users_col, ref)
    IN  /\ t.pc = "start_ref"
        /\ IF OnCollection
           THEN IF py_int_ok(ref)
                THEN /\ users_col' = g.col
                     /\ SetLocals(w, [t EXCEPT !.pc = "start_check", !.ref_user = g.user])
                     /\ UNCHANGED users_cache
                ELSE /\ SetLocals(w, [t EXCEPT !.pc = "start_final", !.kind = "RefError"])
                     /\ UNCHANGED <<users_cache, users_col>>
           ELSE /\ users_cache' = get_user(users_cache, ref)
                /\ SetLocals(w, [t EXCEPT !.pc = "start_check"])
                /\ UNCHANGED users_col
        /\ sent' = <<>>
        /\ UNCHANGED <<outcome, ledger, budget, input, mirror>>

\* lines 178-179: the membership test and the cap test
StartCheck(w) ==
    LET t == threads[w]
        ref_user == LocalRefUser(t, t.args[1])
        kind == IF InList(py_str(t.id), ref_user.refs) THEN "AlreadyReferred"
                ELSE IF ~under_caps(ref_user) THEN "CapExceeded"
                ELSE "Accepted"
    IN  /\ t.pc = "start_check"
        /\ SetLocals(w, [t EXCEPT !.kind = kind,
                                  !.pc = IF kind = "Accepted" THEN "start_credit"
                                         ELSE "start_final"])
        /\ sent' = <<>>
        /\ UNCHANGED <<users_cache, users_col, outcome, ledger, budget, input, mirror>>

\* lines 180-186: the appends, the bonus spin, save_user(ref, ref_user) and
\* the message to the referrer
StartCredit(w) ==
    LET t == threads[w]
        ref == t.args[1]
        credited == credit_referral(LocalRefUser(t, ref), py_str(t.id))
    IN  /\ t.pc = "start_credit"
        /\ IF OnCollection
           THEN /\ users_col' = save_user_db(users_col, ref, credited)
                /\ UNCHANGED users_cache
           ELSE /\ users_cache' = save_user(users_cache, ref, credited)
                /\ UNCHANGED users_col
        /\ SetLocals(w, [t EXCEPT !.pc = "start_final"])
        /\ sent' = IF py_int_ok(ref) THEN <<Msg(py_int(ref), "ref_bonus")>> ELSE <<>>
        /\ UNCHANGED <<outcome, ledger, budget, input, mirror>>

\* lines 192-193: save_user(uid, user) and the welcome
StartFinal(w) ==
    LET t == threads[w]
        uid == py_str(t.id)
    IN  /\ t.pc = "start_final"
        /\ IF OnCollection
           THEN /\ users_col' = save_user_db(users_col, uid, t.user)
                /\ UNCHANGED users_cache
           ELSE /\ users_cache' = save_user(users_cache, uid, users_cache[uid])
                /\ UNCHANGED users_col
        /\ SetLocals(w, Idle)
        /\ sent' = <<Msg(t.id, "welcome")>>
        /\ outcome' = Out("start", t.id, t.args, t.kind, 0,
                           IF Len(t.args) > 0 THEN "ref" ELSE "plain")
        /\ UNCHANGED <<ledger, budget, input, mirror>>

\* the store at start-up and the handlers started afterwards
ThreadScenarios == {
    <<FreshFile, NoCollection, Run(MaxThreadCmds, 0, 0, 0, 0)>>,
    <<ReferredFile(DAILY_CAP - 1), NoCollection, Run(MaxThreadCmds, 0, 0, 0, 0)>>,
    <<FreshFile, NoCollection, Run(0, MaxThreadCmds, 0, 0, 0)>>,
    <<FreshFile, EmptyCollection, Run(MaxThreadCmds, 0, 0, 0, 0)>>,
    <<FreshFile, EmptyCollection, Run(0, MaxThreadCmds, 0, 0, 0)>> }

InitThreads ==
    /\ \E s \in ThreadScenarios :
            users_cache = s[1] /\ users_col = s[2] /\ budget = s[3]
    /\ threads = [w \in Workers |-> Idle]
    /\ sent = <<>>
    /\ outcome = Out("boot", 0, <<>>, "Loaded", 0, "boot")
    /\ input = NoInput
    /\ mirror = NoMirror
    /\ ledger = [k \in { py_str(u) : u \in Users } |-> NoHistory]

NextThreads ==
    \E w \in Workers :
        \/ \E id \in Users : SpinGet(w, id)
        \/ \E now \in ThreadTimes, reward \in draw_reward : SpinMutate(w, now, reward)
        \/ SpinSave(w)
        \/ \E id \in Users, args \in StartArgs : StartGet(w, id, args)
        \/ StartGetRef(w)
        \/ StartCheck(w)
        \/ StartCredit(w)
        \/ StartFinal(w)

SpecThreads == InitThreads /\ [][NextThreads]_vars

----------------------------------------------------------------------------

Next ==
    \/ Start \/ Spin \/ Submit \/ ApproveTask \/ SetCoins
    \/ Balance \/ MyRefs \/ ReferralBoard \/ Leaderboard
    \/ UserStats \/ Broadcast

Spec == Init /\ [][Next]_vars

----------------------------------------------------------------------------
(* Helpers of the properties *)

\* the record get_user returns for key k in cache
Rec(cache, k) == get_user(cache, k)[k]

CooldownTicks == COOLDOWN * TicksPerSec

RewardValues == {0, 300, 500, 800, 1000, 1500}

\* The step is cmd_spin for sender id at time now with reward drawn.  The
\* first line follows from SpinStep and only spares its evaluation.
SpinTaken(id, now, reward) ==
    /\ outcome'.cmd = "spin" /\ outcome'.from = id /\ input'.now = now /\ input'.draw \in {reward, -1}
    /\ SpinStep(id, now, reward)

\* The step is cmd_start for sender id with the one argument ref.
StartTaken(id, ref) ==
    /\ outcome'.cmd = "start" /\ outcome'.from = id /\ outcome'.arg = <<ref>>
    /\ StartStep(id, <<ref>>)

\* The step is cmd_submit for sender id.
SubmitTaken(id) ==
    /\ outcome'.cmd = "submit" /\ outcome'.from = id
    /\ SubmitStep(id)

\* The step is cmd_approvetask for sender id with arguments args.
ApproveTaken(id, args) ==
    /\ outcome'.cmd = "approvetask" /\ outcome'.from = id /\ outcome'.arg = args
    /\ ApproveStep(id, args)

\* The step is cmd_setcoins for sender id with arguments args.
SetCoinsTaken(id, args) ==
    /\ outcome'.cmd = "setcoins" /\ outcome'.from = id /\ outcome'.arg = args
    /\ SetCoinsStep(id, args)

\* The step is cmd_userstats for sender id.
UserStatsTaken(id) ==
    /\ outcome'.cmd = "userstats" /\ outcome'.from = id
    /\ UserStatsStep(id)

\* The step is cmd_broadcast for sender id with the text given.
BroadcastTaken(id, text) ==
    /\ outcome'.cmd = "broadcast" /\ outcome'.from = id /\ outcome'.arg = text
    /\ \E order \in KeyOrders(users_cache) : BroadcastStep(id, text, order)

\* every record stored before the step, except those of the keys given, is
\* the same after it
OthersUnchanged(keys) ==
    \A k \in DOMAIN users_cache : k \notin keys => users_cache'[k] = users_cache[k]

----------------------------------------------------------------------------
(* C1 *)

\* C1: in every reachable state the coins of every user record are >= 0.
C1_CoinsNeverNegative ==
    \A k \in DOMAIN users_cache : users_cache[k].coins >= 0

----------------------------------------------------------------------------
(* C2 *)

\* C2: for a user with spins = 0 and last_spin_time = T, a /spin at time now
\* yields Cooldown when now - T < 36000 s and Won when now - T >= 36000 s;
\* after the Won outcome the user's spins = 1 and last_spin_time = now.
C2_SpinAtZeroSpins ==
    [][\A id \in Users, now \in Times, reward \in draw_reward :
        LET uid == py_str(id)
            T == users_cache[uid].last_spin_time
        IN  (/\ uid \in DOMAIN users_cache
             /\ users_cache[uid].spins = 0
             /\ SpinTaken(id, now, reward))
            => IF now - T < CooldownTicks
               THEN /\ outcome'.kind = "Cooldown"
                    /\ sent' = <<Msg(id, "cooldown")>>
               ELSE /\ outcome'.kind = "Won"
                    /\ sent' = <<Msg(id, "won")>>
                    /\ users_cache'[uid].spins = 1
                    /\ users_cache'[uid].last_spin_time = now]_vars

\* a user out of spins since TimeBase has spun exactly 36000 s later and won
C2_Witness ==
    \E id \in Users :
        /\ outcome.cmd = "spin" /\ outcome.from = id
        /\ outcome.kind = "Won" /\ outcome.path = "refill"
        /\ users_cache[py_str(id)].spins = 1
        /\ users_cache[py_str(id)].last_spin_time = TimeBase + CooldownTicks

----------------------------------------------------------------------------
(* C3 *)

\* C3: for a user with spins > 0, a /spin at any time succeeds: spins goes
\* down by exactly 1, last_spin_time becomes now, coins goes up by exactly the
\* drawn reward r, r in {0,300,500,800,1000,1500}, the outcome is Won(r), and
\* no other field of that user and no other user's record changes.
C3_SpinWithSpinsLeft ==
    [][\A id \in Users, now \in Times, reward \in draw_reward :
        LET uid == py_str(id)
            pre == Rec(users_cache, uid)
        IN  (pre.spins > 0 /\ SpinTaken(id, now, reward))
            => /\ reward \in RewardValues
               /\ outcome'.kind = "Won" /\ outcome'.val = reward
               /\ sent' = <<Msg(id, "won")>>
               /\ DOMAIN users_cache' = DOMAIN users_cache \cup {uid}
               /\ users_cache'[uid] =
                    [pre EXCEPT !.spins = pre.spins - 1,
                                !.last_spin_time = now,
                                !.coins = pre.coins + reward]
               /\ \A k \in DOMAIN users_cache :
                    k # uid => users_cache'[k] = users_cache[k]]_vars

\* a user with spins left and an earlier spin less than 36000 s ago has won
C3_Witness ==
    \E id \in Users :
        /\ outcome.cmd = "spin" /\ outcome.from = id
        /\ outcome.kind = "Won" /\ outcome.path = "direct"
        /\ ledger[py_str(id)].nwon = 2
        /\ users_cache[py_str(id)].spins = 1
        /\ users_cache[py_str(id)].coins = 1500 + 300

----------------------------------------------------------------------------
(* C4 *)

\* C4 as stated: a /spin that ends in Cooldown changes no record, and the
\* reported remainingSeconds equals 36000 - (now - last_spin_time), which lies
\* in 1..36000 when time does not run backwards.
C4_CooldownExactSeconds ==
    [][\A id \in Users, now \in Times, reward \in draw_reward :
        LET uid == py_str(id)
            T == Rec(users_cache, uid).last_spin_time
        IN  (outcome'.kind = "Cooldown" /\ SpinTaken(id, now, reward))
            => /\ users_cache' = users_cache
               /\ outcome'.val * TicksPerSec = CooldownTicks - (now - T)
               /\ now >= T => outcome'.val \in 1..COOLDOWN]_vars

\* C4 as amended: a /spin that ends in Cooldown changes no record, and the
\* reported remainingSeconds is 36000 - (now - last_spin_time) cut to whole
\* seconds, which lies in 0..36000 when time does not run backwards.
C4_CooldownTruncatedSeconds ==
    [][\A id \in Users, now \in Times, reward \in draw_reward :
        LET uid == py_str(id)
            T == Rec(users_cache, uid).last_spin_time
            left == CooldownTicks - (now - T)
        IN  (outcome'.kind = "Cooldown" /\ SpinTaken(id, now, reward))
            => /\ users_cache' = users_cache
               /\ sent' = <<Msg(id, "cooldown")>>
               /\ outcome'.val * TicksPerSec <= left
               /\ left < (outcome'.val + 1) * TicksPerSec
               /\ now >= T => outcome'.val \in 0..COOLDOWN]_vars

\* a user out of spins has spun half a second before the cool-down ended
C4_Witness ==
    \E id \in Users :
        /\ outcome.cmd = "spin" /\ outcome.from = id
        /\ outcome.kind = "Cooldown" /\ outcome.val = 0
        /\ users_cache[py_str(id)].spins = 0
        /\ users_cache[py_str(id)].last_spin_time = TimeBase

----------------------------------------------------------------------------
(* C5 *)

\* no referral credit, no approval and no /setcoins has reached key k
Untouched(cache, led, k) ==
    k \in DOMAIN cache =>
        /\ led[k].bonus = 0 /\ ~led[k].adminset
        /\ cache[k].task_done = <<>>

SpinsWon(led, k) == IF k \in DOMAIN led THEN led[k].nwon ELSE 0

\* C5: for a user created with the defaults whom no referral credit and no
\* admin command has touched, the first three /spin commands return Won at
\* any times and leave spins = 0 and coins = the sum of the three rewards,
\* and a further /spin less than 36000 s after the third returns Cooldown.
C5_FirstThreeSpins ==
    /\ [](\A k \in DOMAIN users_cache :
            (Untouched(users_cache, ledger, k) /\ ledger[k].nwon <= 3)
            => /\ users_cache[k].spins = 3 - ledger[k].nwon
               /\ users_cache[k].coins = ledger[k].won)
    /\ [][\A id \in Users, now \in Times, reward \in draw_reward :
            LET uid == py_str(id)
                n == SpinsWon(ledger, uid)
            IN  (SpinTaken(id, now, reward) /\ Untouched(users_cache, ledger, uid))
                => /\ n < 3 => outcome'.kind = "Won"
                   /\ (n = 3 /\ now - users_cache[uid].last_spin_time < CooldownTicks)
                      => (outcome'.kind = "Cooldown" /\ users_cache' = users_cache)]_vars

\* an untouched user has won three spins and the fourth was refused
C5_Witness ==
    \E id \in Users :
        /\ Untouched(users_cache, ledger, py_str(id))
        /\ py_str(id) \in DOMAIN users_cache
        /\ ledger[py_str(id)].nwon = 3
        /\ users_cache[py_str(id)].coins = 300 + 500 + 1500
        /\ outcome.cmd = "spin" /\ outcome.from = id /\ outcome.kind = "Cooldown"

----------------------------------------------------------------------------
(* C6 *)

\* the text ref denotes the user with id id
SameUser(ref, id) == py_int_ok(ref) /\ py_int(ref) = id

\* C6: a /start carrying a referrer id is rejected, leaving the referrer's
\* refs, daily_refs, weekly_refs and spins unchanged, whenever the referrer id
\* denotes the sender or the sender's id is already in the referrer's refs.
C6_SelfAndDuplicateRejected ==
    [][\A id \in Users, ref \in IdTexts :
        LET uid == py_str(id)
            pre == Rec(users_cache, ref)
            post == Rec(users_cache', ref)
        IN  (StartTaken(id, ref) /\ (SameUser(ref, id) \/ InList(uid, pre.refs)))
            => /\ outcome'.kind \in {"SelfReferral", "AlreadyReferred"}
               /\ post.refs = pre.refs
               /\ post.daily_refs = pre.daily_refs
               /\ post.weekly_refs = pre.weekly_refs
               /\ post.spins = pre.spins]_vars

----------------------------------------------------------------------------
(* C7 *)

----------------------------------------------------------------------------
(* C8 *)

\* C8: an accepted referral appends the referee id to the referrer's refs,
\* daily_refs and weekly_refs and adds 1 to the referrer's spins; the
\* referrer's other fields, the referee's record (created with the defaults
\* if it was absent) and every other record are unchanged.
C8_AcceptedReferralEffect ==
    [][\A id \in Users, ref \in IdTexts :
        LET uid == py_str(id)
            pre == Rec(users_cache, ref)
        IN  (outcome'.kind = "Accepted" /\ StartTaken(id, ref))
            => /\ DOMAIN users_cache' = DOMAIN users_cache \cup {uid, ref}
               /\ users_cache'[ref] =
                    [pre EXCEPT !.refs = pre.refs \o <<uid>>,
                                !.daily_refs = pre.daily_refs \o <<uid>>,
                                !.weekly_refs = pre.weekly_refs \o <<uid>>,
                                !.spins = pre.spins + 1]
               /\ users_cache'[uid] = Rec(users_cache, uid)
               /\ users_cache'[uid].ref_by = "None"
               /\ \A k \in DOMAIN users_cache :
                    k \notin {uid, ref} => users_cache'[k] = users_cache[k]]_vars

\* a referee who has already spun has been credited to a referrer who has too
C8_Witness ==
    /\ outcome.cmd = "start" /\ outcome.kind = "Accepted"
    /\ users_cache[py_str(outcome.from)].coins > 0
    /\ users_cache[outcome.arg[1]].coins > 0
    /\ users_cache[outcome.arg[1]].spins = 3

----------------------------------------------------------------------------
(* C9 *)

\* C9: Approved is terminal: a user whose id is in task_done is never again
\* in task_pending and is never credited a second task reward.
C9_ApprovedIsTerminal ==
    \A k \in DOMAIN users_cache :
        InList(k, users_cache[k].task_done)
        => /\ ~InList(k, users_cache[k].task_pending)
           /\ Len(users_cache[k].task_done) = 1

----------------------------------------------------------------------------
(* C10 *)

\* C10: each user's task_pending holds at most one entry, the user's own id,
\* and a /submit while the user is pending changes no record and sends no
\* admin notification.
C10_SubmitIdempotent ==
    /\ [](\A k \in DOMAIN users_cache :
            /\ Len(users_cache[k].task_pending) <= 1
            /\ \A i \in 1..Len(users_cache[k].task_pending) :
                    users_cache[k].task_pending[i] = k)
    /\ [][\A id \in Users :
            (SubmitTaken(id) /\ InList(py_str(id), Rec(users_cache, py_str(id)).task_pending))
            => /\ users_cache' = users_cache
               /\ \A i \in 1..Len(sent') : sent'[i].msg # "task_notice"]_vars

\* a pending user has submitted again
C10_Witness ==
    /\ outcome.cmd = "submit" /\ outcome.kind = "AlreadyPending"
    /\ users_cache[py_str(outcome.from)].task_pending = <<py_str(outcome.from)>>
    /\ sent = <<>>

----------------------------------------------------------------------------
(* C11 *)

\* C11: when the admin runs /approvetask for a target whose id is in the
\* target's task_pending, the id is removed from task_pending and appended to
\* task_done and the target's coins go up by exactly 500; the target's spins,
\* last_spin_time and referral lists and every other record are unchanged.
C11_ApprovalEffect ==
    [][\A t \in IdTexts :
        LET pre == Rec(users_cache, t)
            post == users_cache'[t]
        IN  (InList(t, pre.task_pending) /\ ApproveTaken(ADMIN_ID, <<t>>))
            => /\ outcome'.kind = "Approved"
               /\ DOMAIN users_cache' = DOMAIN users_cache
               /\ ~InList(t, post.task_pending)
               /\ Len(post.task_pending) = Len(pre.task_pending) - 1
               /\ post.task_done = pre.task_done \o <<t>>
               /\ post.coins = pre.coins + 500
               /\ post = [pre EXCEPT !.task_pending = post.task_pending,
                                     !.task_done = post.task_done,
                                     !.coins = post.coins]
               /\ OthersUnchanged({t})]_vars

\* a user who won 1500 coins has had a submitted task approved
C11_Witness ==
    /\ outcome.cmd = "approvetask" /\ outcome.kind = "Approved"
    /\ users_cache[outcome.arg[1]].coins = 1500 + 500
    /\ users_cache[outcome.arg[1]].task_done = <<outcome.arg[1]>>
    /\ users_cache[outcome.arg[1]].task_pending = <<>>

----------------------------------------------------------------------------
(* C12 *)

\* C12: when the admin runs /approvetask for a target that has no pending
\* task, a target never seen before included, the outcome is NoPendingTask
\* and nothing is mutated: every record is as before and the set of stored
\* records is the same as before the command.
C12_NoPendingNoMutation ==
    [][\A t \in IdTexts :
        (~InList(t, Rec(users_cache, t).task_pending) /\ ApproveTaken(ADMIN_ID, <<t>>))
        => /\ outcome'.kind = "NoPendingTask"
           /\ DOMAIN users_cache' = DOMAIN users_cache
           /\ users_cache' = users_cache]_vars

----------------------------------------------------------------------------
(* C13 *)

\* C13: /approvetask, /setcoins, /userstats and /broadcast from a sender who
\* is not the admin change no stored state, create no record and send no
\* message, for every argument list.
C13_NonAdminSilent ==
    [][\A id \in Users \ {ADMIN_ID} :
        (\/ \E args \in ApproveArgs : ApproveTaken(id, args)
         \/ \E args \in SetcoinsArgs : SetCoinsTaken(id, args)
         \/ UserStatsTaken(id)
         \/ \E text \in BroadcastTexts : BroadcastTaken(id, text))
        => /\ users_cache' = users_cache
           /\ sent' = <<>>]_vars

\* a user who is not the admin has sent /broadcast with a text while two
\* records were stored
C13_Witness ==
    /\ outcome.cmd = "broadcast" /\ outcome.from # ADMIN_ID
    /\ outcome.arg = <<"hello">>
    /\ Cardinality(DOMAIN users_cache) >= 2
    /\ sent = <<>>

----------------------------------------------------------------------------
(* C14 *)

\* the amounts of AmountTexts that are integers, and their values
IntegerAmount(a) == a \in { <<"7", "0", "0">>, <<"-", "5">> }

AmountValue(a) == IF a = <<"7", "0", "0">> THEN 700 ELSE -5

\* C14: /setcoins by the admin with an amount that is no integer, or with a
\* wrong number of arguments, replies with an error and changes no stored
\* state; with an integer amount it sets the target's coins to exactly that
\* amount whatever the balance was and leaves every other field of the
\* target and every other record unchanged.
C14_SetCoins ==
    [][\A args \in SetcoinsArgs :
        SetCoinsTaken(ADMIN_ID, args)
        => IF Len(args) # 2 \/ ~IntegerAmount(args[2])
           THEN /\ users_cache' = users_cache
                /\ Len(sent') = 1 /\ sent'[1].to = ADMIN_ID
                /\ sent'[1].msg \in {"usage", "not_a_number"}
           ELSE /\ DOMAIN users_cache' = DOMAIN users_cache \cup {args[1]}
                /\ users_cache'[args[1]] =
                     [Rec(users_cache, args[1]) EXCEPT !.coins = AmountValue(args[2])]
                /\ OthersUnchanged({args[1]})]_vars

\* the admin has set to 700 the coins of a user who held an approved task's
\* reward
C14_Witness ==
    /\ outcome.cmd = "setcoins" /\ outcome.kind = "Set" /\ outcome.val = 700
    /\ users_cache[outcome.arg[1]].task_done = <<outcome.arg[1]>>
    /\ users_cache[outcome.arg[1]].coins = 700

----------------------------------------------------------------------------
(* C15 *)

\* the records of the cache and the documents of the collection are the
\* same: the same ids, and under each id the same field values
SameRecords ==
    /\ \A k \in DOMAIN users_cache :
            /\ py_int_ok(k) /\ py_int(k) \in DOMAIN users_col.docs
            /\ users_col.docs[py_int(k)] = users_cache[k]
    /\ \A n \in DOMAIN users_col.docs : py_str(n) \in DOMAIN users_cache
    /\ Cardinality(DOMAIN users_cache) = Cardinality(DOMAIN users_col.docs)

\* C15: for every sequence of commands handled one at a time, the program on
\* the document store and the program on the flat file give the same outcome
\* and hold the same user records after every command, also when a referrer
\* or target id is typed in another textual form of the same number.
\* It is stated for the runs in which every id typed denotes a number, so
\* that every key of the cache does.
C15_BackendsAgree ==
    (\A k \in DOMAIN users_cache : py_int_ok(k))
    => /\ mirror.out = outcome
       /\ mirror.sent = sent
       /\ SameRecords

----------------------------------------------------------------------------
(* C16 *)

\* C16: get -> mutate -> save is not locked: when a /spin handler saves its
\* Won spin after another handler has saved the same user since this one's
\* get_user, the stored record reflects this handler alone: spins is the
\* value it read less one and coins the value it read plus its own reward,
\* whatever the other handler stored and reported (last write wins).  It is
\* stated for the program on the collection; on the flat file both handlers
\* hold the one dictionary of the cache.
C16_LastWriteWins ==
    [][\A w \in Workers :
        LET t == threads[w]
            cur == users_col.docs[t.id]
            post == users_col'.docs[t.id]
        IN  (/\ OnCollection
             /\ t.pc = "spin_mutated" /\ threads'[w].pc = "idle"
             /\ cur # t.read)
            => /\ outcome'.kind = "Won" /\ outcome'.val = t.reward
               /\ sent' = <<Msg(t.id, "won")>>
               /\ post.spins = (IF t.read.spins <= 0 THEN 2 ELSE t.read.spins) - 1
               /\ post.coins = t.read.coins + t.reward
               /\ post.last_spin_time = t.now]_vars

\* two /spin handlers of a new user have both reported Won, of 300 and of
\* 1500 coins, and the stored document has one spin less and 1500 coins
C16_Witness ==
    \E id \in Users :
        /\ OnCollection
        /\ \A w \in Workers : threads[w].pc = "idle"
        /\ ledger[py_str(id)].nwon = 2
        /\ ledger[py_str(id)].won = 300 + 1500
        /\ users_col.docs[id].spins = 3 - 1
        /\ users_col.docs[id].coins = 1500

----------------------------------------------------------------------------
(* C17 *)

\* no entry of the list occurs in it twice
NoDuplicates(list) ==
    \A i, j \in 1..Len(list) : i # j => list[i] # list[j]

\* C17: in every reachable state, those reached with several /start
\* handlers naming the same referrer interleaved between their membership
\* test and their append and save included, each user's refs holds no id
\* twice and never the user's own id.  It is stated for the records of the
\* flat-file program.
C17_RefsNoDuplicatesNoSelf ==
    \A k \in DOMAIN users_cache :
        /\ NoDuplicates(users_cache[k].refs)
        /\ ~InList(k, users_cache[k].refs)

----------------------------------------------------------------------------
(* C18 *)

----------------------------------------------------------------------------
(* C19 *)

\* C19: with commands handled one at a time, every user's spins is within
\* 0..8 in every reachable state: never negative and never above the initial
\* 3 plus the at most 5 referral bonus spins.
C19_SpinsWithinBounds ==
    \A k \in DOMAIN users_cache :
        users_cache[k].spins >= 0 /\ users_cache[k].spins <= 8

\* a fifth referral has been accepted and its referrer holds 8 spins
C19_Witness ==
    /\ outcome.cmd = "start" /\ outcome.kind = "Accepted"
    /\ users_cache[outcome.arg[1]].spins = 8
    /\ Len(users_cache[outcome.arg[1]].refs) = 5

----------------------------------------------------------------------------
(* C20 *)

\* the commands that pay nothing
Unpaid == {"start", "submit", "balance", "myrefs", "referralboard", "leaderboard"}

\* C20: with commands handled one at a time, the coins of a user to whom
\* /setcoins was never applied are the sum of the rewards of their Won spins
\* plus 500 times the length of their task_done, in every reachable state;
\* /start, /submit, /balance, /myrefs, the boards and a Cooldown spin change
\* nobody's coins.
C20_CoinsAccounting ==
    /\ [](\A k \in DOMAIN users_cache :
            ~ledger[k].adminset
            => users_cache[k].coins = ledger[k].won + 500 * Len(users_cache[k].task_done))
    /\ [][(outcome' # outcome \/ users_cache' # users_cache)
           /\ (outcome'.cmd \in Unpaid \/ outcome'.kind = "Cooldown")
           => \A k \in DOMAIN users_cache' :
                users_cache'[k].coins = Rec(users_cache, k).coins]_vars

\* a user whom /setcoins never reached holds one won reward and the reward
\* of one approved task
C20_Witness ==
    \E k \in DOMAIN users_cache :
        /\ ~ledger[k].adminset
        /\ ledger[k].nwon = 1 /\ ledger[k].won = 800
        /\ Len(users_cache[k].task_done) = 1
        /\ users_cache[k].coins = 800 + 500

====
